---- MODULE Spec2Model ----
(***************************************************************************)
(* Content Forge service layer (src/services/api.ts, lib/utils): the mock  *)
(* session, the per-user fixed-window rate limiter and the post            *)
(* repository kept in localStorage.                                        *)
(*                                                                         *)
(* api.ts holds two variants of the service.  The first ("storage") keeps  *)
(* the limiter in localStorage (api.ts:35-91); the second ("utils")        *)
(* imports the in-memory limiter of lib/utils (part_006:74-107).  The      *)
(* variable `variant` says which of the two is running.                    *)
(*                                                                         *)
(* Time is counted in hours: Date.now() is `now`, and an ISO timestamp is  *)
(* the hour it was taken.  An optional value (payload.id?, publishDate?,   *)
(* localStorage.getItem(..) that may be null) is a set: {} when absent,    *)
(* {v} when present.  The error_logs key (api.ts:107-109) is written by    *)
(* the apiErrorHandler of the first variant and by the ErrorBoundary and   *)
(* read by no call; a specification follows it when its scope says so.     *)
(***************************************************************************)
EXTENDS Integers, Sequences, FiniteSets, TLC

VARIABLES
  variant,          \* which api.ts variant runs: "storage" or "utils"
  user,             \* localStorage "user": {} or {[id, role]}
  isAuthenticated,  \* localStorage "isAuthenticated" = "true"
  token,            \* localStorage "token": {} or {t}
  posts,            \* localStorage posts table: sequence of Post
  rateLimits,       \* limiter table: userId -> RateLimitInfo (partial)
  now,              \* Date.now(), in hours
  errorLogs,        \* localStorage "error_logs": sequence of entries
  result,           \* the last call: its arguments, what it returned or threw,
                    \* and what it found (limiter state, post) on entry
  windowCalls,      \* history: rate-limited calls of each user in its window
  calls,            \* the calls issued one by one: waiting on their delay,
                    \* or settled with their outcome
  editPage          \* the Edit page: {} or {[post, formData]}

vars == <<variant, user, isAuthenticated, token, posts, rateLimits, now,
          errorLogs, result, windowCalls, calls, editPage>>

(* ---------------------------- bounds ----------------------------------- *)
MaxTime == 2
MaxPosts == 2
MaxOver == 1
MaxCurrentPosts == 2
MaxRenderErrors == 1
MaxAdminPosts == 3
MaxAdminErrors == 1
MaxLoggedFailures == 2
MaxInFlight == 2
MaxSessionCalls == 3

(* ------------------------ program constants ---------------------------- *)
RATE_LIMIT_WINDOW == 1
MAX_REQUESTS_PER_HOUR == 20
UTILS_LIMIT == 10
DB_LOGS_KEPT == 100

UserIds == {"u1", "u2"}
PostIds == {"p1", "p2"}
PublishDates == {1}

(* The inputs and caps of one specification. *)
Text1 == [title |-> "t1", content |-> "c1", topic |-> "o1", style |-> "s1"]
Text2 == [title |-> "t2", content |-> "c2", topic |-> "o2", style |-> "s2"]

\* the post repository: every payload shape, a few calls, all of them
\* inside the first window of the limiter
PostsScope ==
  [ users       |-> {"u1"},
    genTexts    |-> {Text1},
    createTexts |-> {Text1},
    updateTexts |-> {Text2},
    flags       |-> {{}, {TRUE}, {FALSE}},
    dates       |-> {{}} \cup {{d} : d \in PublishDates},
    maxPosts    |-> MaxPosts,
    maxTime     |-> RATE_LIMIT_WINDOW,
    \* the first consume of the storage limiter leaves current at 0
    capStorage  |-> MaxCurrentPosts - 1,
    capUtils    |-> MaxCurrentPosts,
    errorLog    |-> FALSE,
    maxErrors   |-> 0 ]

\* the limiter: one user driven up to and past the ceiling
LimiterScope ==
  [ users       |-> {"u1"},
    genTexts    |-> {Text1},
    createTexts |-> {Text1},
    updateTexts |-> {Text1},
    flags       |-> {{}},
    dates       |-> {{}},
    maxPosts    |-> 1,
    maxTime     |-> MaxTime,
    capStorage  |-> MAX_REQUESTS_PER_HOUR + MaxOver,
    capUtils    |-> UTILS_LIMIT + MaxOver,
    errorLog    |-> FALSE,
    maxErrors   |-> 0 ]

\* deletion: plain posts, enough calls to store MaxPosts of them and then
\* delete
DeleteScope ==
  [ users       |-> {"u1"},
    genTexts    |-> {Text1},
    createTexts |-> {Text1},
    updateTexts |-> {},
    flags       |-> {{}},
    dates       |-> {{}},
    maxPosts    |-> MaxPosts,
    maxTime     |-> 0,
    capStorage  |-> MaxPosts + 1,
    capUtils    |-> MaxPosts + 2,
    errorLog    |-> FALSE,
    maxErrors   |-> 0 ]

\* the error log: failing calls of a visitor who is not logged in, and a
\* few render errors, up to and past the length dbLogger keeps
ErrorsScope ==
  [ users       |-> {},
    genTexts    |-> {},
    createTexts |-> {},
    updateTexts |-> {},
    flags       |-> {{}},
    dates       |-> {{}},
    maxPosts    |-> 0,
    maxTime     |-> 0,
    capStorage  |-> 0,
    capUtils    |-> 0,
    errorLog    |-> TRUE,
    maxErrors   |-> DB_LOGS_KEPT + MaxOver,
    maxRender   |-> MaxRenderErrors ]

\* the admin calls: a stored user of any role over a stored posts table
AdminScope ==
  [ users       |-> {"u1"},
    genTexts    |-> {},
    createTexts |-> {},
    updateTexts |-> {},
    flags       |-> {{}},
    dates       |-> {{}},
    maxPosts    |-> MaxAdminPosts,
    maxTime     |-> RATE_LIMIT_WINDOW,
    capStorage  |-> 0,
    capUtils    |-> 0,
    errorLog    |-> TRUE,
    maxErrors   |-> MaxAdminErrors,
    maxRender   |-> 0 ]

\* the public post page: two users, posts created unpublished, dated or
\* not, then published, and looked at by whoever holds the session
ViewScope ==
  [ users       |-> UserIds,
    genTexts    |-> {},
    createTexts |-> {Text1},
    updateTexts |-> {},
    flags       |-> {{}},
    dates       |-> {{}} \cup {{d} : d \in PublishDates},
    maxPosts    |-> 1,
    maxTime     |-> RATE_LIMIT_WINDOW,
    capStorage  |-> MaxCurrentPosts - 1,
    capUtils    |-> MaxCurrentPosts,
    errorLog    |-> FALSE,
    maxErrors   |-> 0,
    maxRender   |-> 0 ]

\* ownership: two users writing posts and deleting them
OwnerScope ==
  [ users       |-> UserIds,
    genTexts    |-> {},
    createTexts |-> {Text1},
    updateTexts |-> {},
    flags       |-> {{}},
    dates       |-> {{}},
    maxPosts    |-> MaxPosts,
    maxTime     |-> 0,
    capStorage  |-> MaxCurrentPosts - 1,
    capUtils    |-> MaxCurrentPosts,
    errorLog    |-> FALSE,
    maxErrors   |-> 0,
    maxRender   |-> 0 ]

\* failures: calls that throw for want of a session, of a post or of a
\* backend credential, with the error log followed
FailuresScope ==
  [ users       |-> {"u1"},
    genTexts    |-> {Text1},
    createTexts |-> {},
    updateTexts |-> {},
    flags       |-> {{}},
    dates       |-> {{}},
    maxPosts    |-> 0,
    maxTime     |-> 0,
    capStorage  |-> MaxCurrentPosts,
    capUtils    |-> MaxCurrentPosts,
    errorLog    |-> TRUE,
    maxErrors   |-> MaxLoggedFailures,
    maxRender   |-> 0 ]

\* concurrency: calls of one tab issued while earlier ones still wait on
\* their delay
ConcurrentScope ==
  [ users       |-> {"u1"},
    genTexts    |-> {Text1},
    createTexts |-> {Text1},
    updateTexts |-> {},
    flags       |-> {{}},
    dates       |-> {{}},
    maxPosts    |-> MaxInFlight,
    maxTime     |-> 0,
    capStorage  |-> MaxInFlight,
    capUtils    |-> MaxInFlight,
    errorLog    |-> FALSE,
    maxErrors   |-> 0,
    maxRender   |-> 0,
    ops         |-> {"savePost"},
    maxCalls    |-> MaxInFlight ]

\* sessions from empty storage: two users logging in and out, saving a
\* post and trying every admin call
SessionScope ==
  [ users       |-> UserIds,
    genTexts    |-> {},
    createTexts |-> {Text1},
    updateTexts |-> {},
    flags       |-> {{}},
    dates       |-> {{}},
    maxPosts    |-> 1,
    maxTime     |-> 0,
    capStorage  |-> MaxCurrentPosts - 1,
    capUtils    |-> MaxCurrentPosts,
    errorLog    |-> TRUE,
    maxErrors   |-> MaxLoggedFailures,
    maxRender   |-> 0 ]

\* the session keys under calls that wait together: AuthForm submissions,
\* logouts and role updates
RaceScope ==
  [ users       |-> UserIds,
    genTexts    |-> {},
    createTexts |-> {},
    updateTexts |-> {},
    flags       |-> {{}},
    dates       |-> {{}},
    maxPosts    |-> 0,
    maxTime     |-> 0,
    capStorage  |-> 0,
    capUtils    |-> 0,
    errorLog    |-> TRUE,
    maxErrors   |-> MaxSessionCalls,
    maxRender   |-> 0,
    ops         |-> {"login", "signup", "logout", "updateUserRole"},
    maxCalls    |-> MaxSessionCalls ]

\* the Edit page: posts stored published or not, dated or not, then
\* loaded in the form, rescheduled, toggled and saved
EditScope ==
  [ users       |-> {"u1"},
    genTexts    |-> {},
    createTexts |-> {Text1},
    updateTexts |-> {},
    flags       |-> {{}, {TRUE}},
    dates       |-> {{}} \cup {{d} : d \in PublishDates},
    maxPosts    |-> 1,
    maxTime     |-> 0,
    capStorage  |-> MaxCurrentPosts,
    capUtils    |-> MaxCurrentPosts + 1,
    errorLog    |-> FALSE,
    maxErrors   |-> 0,
    maxRender   |-> 0 ]

\* scheduling: posts saved with a date, the date passing, and the post
\* page opened before and after it
ScheduleScope ==
  [ users       |-> {"u1"},
    genTexts    |-> {},
    createTexts |-> {Text1},
    updateTexts |-> {Text1},
    flags       |-> {{}, {TRUE}},
    dates       |-> {{}} \cup {{d} : d \in PublishDates},
    maxPosts    |-> 1,
    maxTime     |-> MaxTime,
    capStorage  |-> MaxCurrentPosts - 1,
    capUtils    |-> MaxCurrentPosts,
    errorLog    |-> FALSE,
    maxErrors   |-> 0,
    maxRender   |-> 0,
    ops         |-> {"fetchPost"},
    maxCalls    |-> 1 ]

\* publication: two users writing posts, dated or not, and publishing
\* them an hour later
PublishScope ==
  [ users       |-> UserIds,
    genTexts    |-> {},
    createTexts |-> {Text1},
    updateTexts |-> {},
    flags       |-> {{}},
    dates       |-> {{}} \cup {{d} : d \in PublishDates},
    maxPosts    |-> 2,
    maxTime     |-> RATE_LIMIT_WINDOW,
    capStorage  |-> MaxCurrentPosts - 1,
    capUtils    |-> MaxCurrentPosts,
    errorLog    |-> FALSE,
    maxErrors   |-> 0,
    maxRender   |-> 0 ]

(* --------------------------- helpers ----------------------------------- *)
Max(a, b) == IF a >= b THEN a ELSE b

The(s) == CHOOSE x \in s : TRUE

\* a ?? b
Nullish(opt, dflt) == IF opt = {} THEN dflt ELSE The(opt)

\* obj[key] = value on a JS object used as a map
Put(f, k, v) == [x \in (DOMAIN f) \cup {k} |-> IF x = k THEN v ELSE f[x]]

(* --------------------------- error log --------------------------------- *)
\* error.message of what a call throws
ErrorMessage(status) ==
  CASE status = "NotAuthenticated"  -> "User not authenticated"
    [] status = "Unauthorized"      -> "Unauthorized: Admin access required"
    [] status = "RateLimitExceeded" -> "Rate limit exceeded"
    [] status = "NotFound"          -> "Post not found"
    [] status = "NotConfigured"     -> "OpenAI API key is not configured"
    [] OTHER                        -> status

\* api.ts:100-104 (componentStack: ErrorBoundary.tsx:33-38)
ErrorLog(t, message, stack) ==
  [timestamp |-> t, error |-> message, componentStack |-> stack]

\* api.ts:94-113: the first variant pushes every failure on error_logs and
\* rethrows; api.ts:669-678: the second variant only rethrows
apiErrorHandler(v, logs, status, t) ==
  IF v = "storage" /\ status # "ok"
  THEN Append(logs, ErrorLog(t, ErrorMessage(status), {}))
  ELSE logs

\* api.ts:637-652, dbLogger.logOperation on its own key: push, then shift
\* once the log is longer than DB_LOGS_KEPT
logOperation(logs, entry) ==
  LET pushed == Append(logs, entry) IN
  IF Len(pushed) > DB_LOGS_KEPT THEN Tail(pushed) ELSE pushed

(* ------------------------- rate limiter -------------------------------- *)
\* api.ts:35-64
getUserRateLimit(table, userId, t) ==
  IF userId \notin DOMAIN table
  THEN LET newLimit == [limit     |-> MAX_REQUESTS_PER_HOUR,
                        current   |-> 0,
                        remaining |-> MAX_REQUESTS_PER_HOUR,
                        resetTime |-> t + RATE_LIMIT_WINDOW]
       IN [table |-> Put(table, userId, newLimit), info |-> newLimit]
  ELSE LET limitData == table[userId] IN
       IF t > limitData.resetTime
       THEN LET reset == [limitData EXCEPT
                            !.current   = 0,
                            !.remaining = MAX_REQUESTS_PER_HOUR,
                            !.resetTime = t + RATE_LIMIT_WINDOW]
            IN [table |-> Put(table, userId, reset), info |-> reset]
       ELSE [table |-> table, info |-> limitData]

\* mutant: the expired branch resets as the read does (current = 0)
updateUserRateLimit_ResetToZero(table, userId, t) ==
  IF userId \notin DOMAIN table
  THEN getUserRateLimit(table, userId, t)
  ELSE LET limitData == table[userId] IN
       LET updated ==
             IF t > limitData.resetTime
             THEN [limitData EXCEPT
                     !.current   = 0,
                     !.remaining = MAX_REQUESTS_PER_HOUR,
                     !.resetTime = t + RATE_LIMIT_WINDOW]
             ELSE [limitData EXCEPT
                     !.current   = limitData.current + 1,
                     !.remaining = Max(0, limitData.limit
                                            - (limitData.current + 1))]
       IN [table |-> Put(table, userId, updated), info |-> updated]

\* api.ts:66-91
updateUserRateLimit(table, userId, t) ==
  IF userId \notin DOMAIN table
  THEN getUserRateLimit(table, userId, t)
  ELSE LET limitData == table[userId] IN
       LET updated ==
             IF t > limitData.resetTime
             THEN [limitData EXCEPT
                     !.current   = 1,
                     !.remaining = MAX_REQUESTS_PER_HOUR - 1,
                     !.resetTime = t + RATE_LIMIT_WINDOW]
             ELSE [limitData EXCEPT
                     !.current   = limitData.current + 1,
                     !.remaining = Max(0, limitData.limit
                                            - (limitData.current + 1))]
       IN [table |-> Put(table, userId, updated), info |-> updated]

\* part_006:76-87 (lib/utils)
utils_getUserRateLimit(table, userId, t) ==
  IF userId \notin DOMAIN table
  THEN LET fresh == [limit     |-> UTILS_LIMIT,
                     current   |-> 0,
                     remaining |-> UTILS_LIMIT,
                     resetTime |-> t + RATE_LIMIT_WINDOW]
       IN [table |-> Put(table, userId, fresh), info |-> fresh]
  ELSE [table |-> table, info |-> table[userId]]

\* mutant: remaining = limit - current, without Math.max(0, ..)
utils_updateUserRateLimit_NoClamp(table, userId, t) ==
  LET got       == utils_getUserRateLimit(table, userId, t) IN
  LET rateLimit == got.info IN
  LET afterReset ==
        IF t > rateLimit.resetTime
        THEN [rateLimit EXCEPT
                !.current   = 0,
                !.remaining = rateLimit.limit,
                !.resetTime = t + RATE_LIMIT_WINDOW]
        ELSE rateLimit IN
  LET updated == [afterReset EXCEPT
                    !.current   = afterReset.current + 1,
                    !.remaining = afterReset.limit - (afterReset.current + 1)]
  IN [table |-> Put(got.table, userId, updated), info |-> updated]

\* part_006:89-107 (lib/utils)
utils_updateUserRateLimit(table, userId, t) ==
  LET got       == utils_getUserRateLimit(table, userId, t) IN
  LET rateLimit == got.info IN
  LET afterReset ==
        IF t > rateLimit.resetTime
        THEN [rateLimit EXCEPT
                !.current   = 0,
                !.remaining = rateLimit.limit,
                !.resetTime = t + RATE_LIMIT_WINDOW]
        ELSE rateLimit IN
  LET updated == [afterReset EXCEPT
                    !.current   = afterReset.current + 1,
                    !.remaining = Max(0, afterReset.limit
                                           - (afterReset.current + 1))]
  IN [table |-> Put(got.table, userId, updated), info |-> updated]

\* the limiter each variant of api.ts binds (api.ts:35-91 / api.ts:664)
CheckLimit(v, table, userId, t) ==
  IF v = "storage" THEN getUserRateLimit(table, userId, t)
                   ELSE utils_getUserRateLimit(table, userId, t)

ConsumeLimit(v, table, userId, t) ==
  IF v = "storage" THEN updateUserRateLimit(table, userId, t)
                   ELSE utils_updateUserRateLimit(table, userId, t)

\* if (rateLimit.remaining <= 0) throw ... (api.ts:193, 311, 409, 438)
RateLimitExceeded(info) == info.remaining <= 0


(* ------------------------ post repository ------------------------------ *)
\* posts.find(post => post.id === id): the first match, or undefined
Find(ps, id) ==
  LET idx == {i \in 1..Len(ps) : ps[i].id = id} IN
  IF idx = {} THEN {}
  ELSE {ps[CHOOSE i \in idx : \A j \in idx : i <= j]}

\* mutant: the update stamps createdAt as well
MergePost_TouchCreated(post, payload, t) ==
  [post EXCEPT
     !.title       = payload.title,
     !.content     = payload.content,
     !.topic       = payload.topic,
     !.style       = payload.style,
     !.isPublished = Nullish(payload.isPublished, post.isPublished),
     !.publishDate = payload.publishDate,
     !.createdAt   = t,
     !.updatedAt   = t]

\* mutant: publishDate is merged with ?? as isPublished is
MergePost_KeepDate(post, payload, t) ==
  [post EXCEPT
     !.title       = payload.title,
     !.content     = payload.content,
     !.topic       = payload.topic,
     !.style       = payload.style,
     !.isPublished = Nullish(payload.isPublished, post.isPublished),
     !.publishDate = IF payload.publishDate = {} THEN post.publishDate
                     ELSE payload.publishDate,
     !.updatedAt   = t]

\* api.ts:324-333, the record an update writes
MergePost(post, payload, t) ==
  [post EXCEPT
     !.title       = payload.title,
     !.content     = payload.content,
     !.topic       = payload.topic,
     !.style       = payload.style,
     !.isPublished = Nullish(payload.isPublished, post.isPublished),
     !.publishDate = payload.publishDate,
     !.updatedAt   = t]

\* api.ts:342-353, the record a create appends
NewPost(newId, payload, t, userId) ==
  [title       |-> payload.title,
   content     |-> payload.content,
   topic       |-> payload.topic,
   style       |-> payload.style,
   userId      |-> userId,
   id          |-> newId,
   isPublished |-> Nullish(payload.isPublished, FALSE),
   publishDate |-> payload.publishDate,
   createdAt   |-> t,
   updatedAt   |-> t]

\* mutant: publishPost toggles the flag instead of setting it
PublishedPost_Toggle(post, flag, t) ==
  [post EXCEPT !.isPublished = ~post.isPublished, !.updatedAt = t]

\* mutant: publishing takes the date off the post
PublishedPost_ClearsDate(post, flag, t) ==
  [post EXCEPT !.isPublished = flag, !.publishDate = {}, !.updatedAt = t]

\* api.ts:448-452, the record publishPost writes
PublishedPost(post, flag, t) ==
  [post EXCEPT !.isPublished = flag, !.updatedAt = t]

\* what one call leaves behind and hands to its caller
Outcome(ps, table, status, ret, info) ==
  [posts |-> ps, table |-> table, status |-> status, ret |-> ret, rl |-> info]

\* mutant: the limiter is charged before the caller is looked at
savePostCall_ConsumeFirst(v, usr, ps, table, t, payload, newId) ==
  LET userId == IF usr = {} THEN "unknown" ELSE The(usr).id
      c      == ConsumeLimit(v, table, userId, t) IN
  IF usr = {}
  THEN Outcome(ps, c.table, "NotAuthenticated", {}, {})
  ELSE
    IF RateLimitExceeded(c.info)
    THEN Outcome(ps, c.table, "RateLimitExceeded", {}, {c.info})
    ELSE IF payload.id # {}
    THEN LET updatedPosts ==
               [i \in 1..Len(ps) |->
                  IF ps[i].id = The(payload.id)
                  THEN MergePost(ps[i], payload, t)
                  ELSE ps[i]]
         IN Outcome(updatedPosts, c.table, "ok",
                    Find(updatedPosts, The(payload.id)), {c.info})
    ELSE LET newPost == NewPost(newId, payload, t, userId)
         IN Outcome(Append(ps, newPost), c.table, "ok", {newPost}, {c.info})

\* mutant: the create writes a table that holds the new record alone, as
\* it would after reading the table before an earlier create was written
savePostCall_StaleTable(v, usr, ps, table, t, payload, newId) ==
  IF usr = {}
  THEN Outcome(ps, table, "NotAuthenticated", {}, {})
  ELSE
    LET userId == The(usr).id
        c      == ConsumeLimit(v, table, userId, t) IN
    IF RateLimitExceeded(c.info)
    THEN Outcome(ps, c.table, "RateLimitExceeded", {}, {c.info})
    ELSE IF payload.id # {}
    THEN LET updatedPosts ==
               [i \in 1..Len(ps) |->
                  IF ps[i].id = The(payload.id)
                  THEN MergePost(ps[i], payload, t)
                  ELSE ps[i]]
         IN Outcome(updatedPosts, c.table, "ok",
                    Find(updatedPosts, The(payload.id)), {c.info})
    ELSE LET newPost == NewPost(newId, payload, t, userId)
         IN Outcome(<<newPost>>, c.table, "ok", {newPost}, {c.info})

\* api.ts:298-360 after the delay (second variant: api.ts:783-845)
savePostCall(v, usr, ps, table, t, payload, newId) ==
  IF usr = {}
  THEN Outcome(ps, table, "NotAuthenticated", {}, {})
  ELSE
    LET userId == The(usr).id
        c      == ConsumeLimit(v, table, userId, t) IN
    IF RateLimitExceeded(c.info)
    THEN Outcome(ps, c.table, "RateLimitExceeded", {}, {c.info})
    ELSE IF payload.id # {}
    THEN LET updatedPosts ==
               [i \in 1..Len(ps) |->
                  IF ps[i].id = The(payload.id)
                  THEN MergePost(ps[i], payload, t)
                  ELSE ps[i]]
         IN Outcome(updatedPosts, c.table, "ok",
                    Find(updatedPosts, The(payload.id)), {c.info})
    ELSE LET newPost == NewPost(newId, payload, t, userId)
         IN Outcome(Append(ps, newPost), c.table, "ok", {newPost}, {c.info})

\* api.ts:380-394 after the delay (second variant: api.ts:865-879)
getPostByIdCall(ps, table, id) ==
  LET post == Find(ps, id) IN
  IF post = {} THEN Outcome(ps, table, "NotFound", {}, {})
  ELSE Outcome(ps, table, "ok", post, {})

\* mutant: the record is removed before the limiter is asked
deletePostCall_WriteFirst(v, usr, ps, table, t, id) ==
  IF usr = {}
  THEN Outcome(ps, table, "NotAuthenticated", {}, {})
  ELSE
    LET userId == The(usr).id
        c      == ConsumeLimit(v, table, userId, t)
        filteredPosts == SelectSeq(ps, LAMBDA post : post.id # id) IN
    IF RateLimitExceeded(c.info)
    THEN Outcome(filteredPosts, c.table, "RateLimitExceeded", {}, {c.info})
    ELSE IF Len(ps) = Len(filteredPosts)
         THEN Outcome(ps, c.table, "NotFound", {}, {c.info})
         ELSE Outcome(filteredPosts, c.table, "ok", {}, {c.info})

\* mutant: only the first record with the id is removed
deletePostCall_FirstOnly(v, usr, ps, table, t, id) ==
  IF usr = {}
  THEN Outcome(ps, table, "NotAuthenticated", {}, {})
  ELSE
    LET userId == The(usr).id
        c      == ConsumeLimit(v, table, userId, t) IN
    IF RateLimitExceeded(c.info)
    THEN Outcome(ps, c.table, "RateLimitExceeded", {}, {c.info})
    ELSE LET idx   == {i \in 1..Len(ps) : ps[i].id = id}
             first == CHOOSE i \in idx : \A j \in idx : i <= j
         IN IF idx = {}
            THEN Outcome(ps, c.table, "NotFound", {}, {c.info})
            ELSE Outcome(SubSeq(ps, 1, first - 1)
                           \o SubSeq(ps, first + 1, Len(ps)),
                         c.table, "ok", {}, {c.info})

\* api.ts:396-423 after the delay (second variant: api.ts:881-908)
deletePostCall(v, usr, ps, table, t, id) ==
  IF usr = {}
  THEN Outcome(ps, table, "NotAuthenticated", {}, {})
  ELSE
    LET userId == The(usr).id
        c      == ConsumeLimit(v, table, userId, t) IN
    IF RateLimitExceeded(c.info)
    THEN Outcome(ps, c.table, "RateLimitExceeded", {}, {c.info})
    ELSE LET filteredPosts == SelectSeq(ps, LAMBDA post : post.id # id) IN
         IF Len(ps) = Len(filteredPosts)
         THEN Outcome(ps, c.table, "NotFound", {}, {c.info})
         ELSE Outcome(filteredPosts, c.table, "ok", {}, {c.info})

\* api.ts:425-465 after the delay (second variant: api.ts:910-950)
publishPostCall(v, usr, ps, table, t, id, flag) ==
  IF usr = {}
  THEN Outcome(ps, table, "NotAuthenticated", {}, {})
  ELSE
    LET userId == The(usr).id
        c      == ConsumeLimit(v, table, userId, t) IN
    IF RateLimitExceeded(c.info)
    THEN Outcome(ps, c.table, "RateLimitExceeded", {}, {c.info})
    ELSE LET updatedPosts ==
               [i \in 1..Len(ps) |->
                  IF ps[i].id = id THEN PublishedPost(ps[i], flag, t)
                  ELSE ps[i]]
             idx == {i \in 1..Len(ps) : ps[i].id = id}
             \* updatedPost is assigned at every match: the last one stays
             updatedPost ==
               IF idx = {} THEN {}
               ELSE {updatedPosts[CHOOSE i \in idx : \A j \in idx : i >= j]}
         IN IF updatedPost = {}
            THEN Outcome(ps, c.table, "NotFound", {}, {c.info})
            ELSE Outcome(updatedPosts, c.table, "ok", updatedPost, {c.info})

\* api.ts:468-478 (second variant: api.ts:953-963)
getUserRateLimitCall(v, usr, ps, table, t) ==
  IF usr = {}
  THEN Outcome(ps, table, "NotAuthenticated", {}, {})
  ELSE LET c == CheckLimit(v, table, The(usr).id, t)
       IN Outcome(ps, c.table, "ok", {}, {c.info})

\* api.ts:166-178 after the delay (second variant: api.ts:731-743)
getCurrentUserCall(usr, ps, table) ==
  IF usr = {}
  THEN Outcome(ps, table, "NotAuthenticated", {}, {})
  ELSE Outcome(ps, table, "ok", usr, {})

\* part_001:22-48, Post.fetchPost once getPostById has settled: the post
\* is put on the page unless it is unpublished and nobody is logged in
fetchPostCall(ps, table, id, isAuth) ==
  LET got == getPostByIdCall(ps, table, id) IN
  IF got.status # "ok"
  THEN Outcome(ps, table, "Failed to load post", {}, {})
  ELSE LET fetchedPost == The(got.ret) IN
       IF ~fetchedPost.isPublished /\ ~isAuth
       THEN Outcome(ps, table,
                    "This post is not available for public viewing", {}, {})
       ELSE Outcome(ps, table, "ok", {fetchedPost}, {})

(* ------------------------------ admin --------------------------------- *)
\* what an admin call leaves in the "user" key and hands to its caller
AdminOutcome(usr, status, ret) == [user |-> usr, status |-> status, ret |-> ret]

\* mutant: a user stored without a role passes as admin
AdminCheck_RoleOptional(usr) ==
  IF usr = {} THEN "NotAuthenticated"
  ELSE IF The(usr).role \notin {{}, {"admin"}} THEN "Unauthorized"
  ELSE "ok"

\* api.ts:488-496: the two checks every admin call starts with
AdminCheck(usr) ==
  IF usr = {} THEN "NotAuthenticated"
  ELSE IF The(usr).role # {"admin"} THEN "Unauthorized"
  ELSE "ok"

\* mutant: a post with a publishDate counts as scheduled whatever the time
AdminStats_AllDated(ps, t) ==
  [totalUsers     |-> Cardinality({ps[i].userId : i \in 1..Len(ps)}),
   totalPosts     |-> Len(ps),
   publishedPosts |-> Cardinality({i \in 1..Len(ps) : ps[i].isPublished}),
   scheduledPosts |-> Cardinality({i \in 1..Len(ps) :
                                     ps[i].publishDate # {}})]

\* api.ts:498-510
AdminStats(ps, t) ==
  [totalUsers     |-> Cardinality({ps[i].userId : i \in 1..Len(ps)}),
   totalPosts     |-> Len(ps),
   publishedPosts |-> Cardinality({i \in 1..Len(ps) : ps[i].isPublished}),
   scheduledPosts |-> Cardinality({i \in 1..Len(ps) :
                                     /\ ps[i].publishDate # {}
                                     /\ The(ps[i].publishDate) > t})]

\* api.ts:483-514 after the delay (second variant: api.ts:1086-1117)
getAdminStatsCall(usr, ps, t) ==
  IF AdminCheck(usr) # "ok" THEN AdminOutcome(usr, AdminCheck(usr), {})
  ELSE AdminOutcome(usr, "ok", {AdminStats(ps, t)})

\* api.ts:516-574 after the delay (second variant: api.ts:1119-1177)
getAllUsersCall(usr) ==
  IF AdminCheck(usr) # "ok" THEN AdminOutcome(usr, AdminCheck(usr), {})
  ELSE LET currentUser == The(usr)
           stored == IF currentUser.role = {}
                     THEN {[currentUser EXCEPT !.role = {"admin"}]}
                     ELSE usr
           mockUsers == << [id |-> currentUser.id, role |-> {"admin"}],
                           [id |-> "user-1", role |-> {"user"}],
                           [id |-> "user-2", role |-> {"user"}],
                           [id |-> "user-3", role |-> {"user"}] >>
       IN AdminOutcome(stored, "ok", {[list |-> mockUsers]})

\* mutant: the role of the caller is not looked at
getAllPostsCall_NoRoleCheck(usr, ps) ==
  IF usr = {} THEN AdminOutcome(usr, "NotAuthenticated", {})
  ELSE AdminOutcome(usr, "ok", {[list |-> ps]})

\* api.ts:576-594 after the delay (second variant: api.ts:1179-1197)
getAllPostsCall(usr, ps) ==
  IF AdminCheck(usr) # "ok" THEN AdminOutcome(usr, AdminCheck(usr), {})
  ELSE AdminOutcome(usr, "ok", {[list |-> ps]})

\* mutant: with no user stored the role is written all the same
updateUserRoleCall_NoSessionCheck(usr, userId, role) ==
  IF usr = {}
  THEN AdminOutcome({[id |-> userId, role |-> {role}]}, "ok",
                    {[id |-> userId, role |-> {role}]})
  ELSE IF AdminCheck(usr) # "ok" THEN AdminOutcome(usr, AdminCheck(usr), {})
  ELSE LET currentUser == The(usr) IN
       IF userId = currentUser.id
       THEN LET updatedUser == [currentUser EXCEPT !.role = {role}]
            IN AdminOutcome({updatedUser}, "ok", {updatedUser})
       ELSE AdminOutcome(usr, "ok", {[id |-> userId, role |-> {role}]})

\* api.ts:596-632 after the delay (second variant: api.ts:1199-1235)
updateUserRoleCall(usr, userId, role) ==
  IF AdminCheck(usr) # "ok" THEN AdminOutcome(usr, AdminCheck(usr), {})
  ELSE LET currentUser == The(usr) IN
       IF userId = currentUser.id
       THEN LET updatedUser == [currentUser EXCEPT !.role = {role}]
            IN AdminOutcome({updatedUser}, "ok", {updatedUser})
       ELSE AdminOutcome(usr, "ok", {[id |-> userId, role |-> {role}]})

\* the draft generateContent returns (api.ts:284-294, 1014-1024, 1073-1083)
Draft(draftId, payload, source, userId, t) ==
  [title       |-> IF source = "backend" THEN "generated title"
                   ELSE payload.topic \o " in " \o payload.style \o " Style",
   content     |-> source,
   topic       |-> payload.topic,
   style       |-> payload.style,
   userId      |-> userId,
   id          |-> draftId,
   isPublished |-> FALSE,
   publishDate |-> {},
   createdAt   |-> t,
   updatedAt   |-> t]

\* `draft-${Date.now()}` (api.ts:1015, 1072)
DraftId(t) == "draft-" \o ToString(t)

\* mutant: the draft is appended to the posts table
generateContentCall_Persist(v, usr, ps, table, t, payload, draftId, cfg, bOk) ==
  IF usr = {}
  THEN Outcome(ps, table, "NotAuthenticated", {}, {})
  ELSE
    LET userId == The(usr).id
        c      == ConsumeLimit(v, table, userId, t) IN
    IF RateLimitExceeded(c.info)
    THEN Outcome(ps, c.table, "RateLimitExceeded", {}, {c.info})
    ELSE IF v = "storage" /\ ~cfg
    THEN Outcome(ps, c.table, "NotConfigured", {}, {c.info})
    ELSE LET source == IF cfg /\ bOk THEN "backend"
                       ELSE "fallback"
             newId  == IF v = "storage" THEN draftId ELSE DraftId(t)
             draft  == Draft(newId, payload, source, userId, t)
         IN Outcome(Append(ps, draft), c.table, "ok", {draft}, {c.info})

\* api.ts:183-296 (first variant) and api.ts:748-781 (second variant);
\* cfg: isOpenAIConfigured(), bOk: the fetch gave a usable answer; the
\* first variant takes the draft's id from generateId(), the second from
\* the clock
generateContentCall(v, usr, ps, table, t, payload, draftId, cfg, bOk) ==
  IF usr = {}
  THEN Outcome(ps, table, "NotAuthenticated", {}, {})
  ELSE
    LET userId == The(usr).id
        c      == ConsumeLimit(v, table, userId, t) IN
    IF RateLimitExceeded(c.info)
    THEN Outcome(ps, c.table, "RateLimitExceeded", {}, {c.info})
    ELSE IF v = "storage" /\ ~cfg
    THEN Outcome(ps, c.table, "NotConfigured", {}, {c.info})
    ELSE LET source == IF cfg /\ bOk THEN "backend"
                       ELSE "fallback"
             newId  == IF v = "storage" THEN draftId ELSE DraftId(t)
         IN Outcome(ps, c.table, "ok",
                    {Draft(newId, payload, source, userId, t)}, {c.info})

(* ------------------------------ state ---------------------------------- *)
Idle(op) ==
  [status |-> "ok", id |-> {}, payload |-> {}, flag |-> {}, ret |-> {},
   rl |-> {}, op |-> op, caller |-> {}, before |-> {}, old |-> {}]

Init ==
  /\ variant \in {"storage", "utils"}
  /\ user = {}
  /\ isAuthenticated = FALSE
  /\ token = {}
  /\ posts = <<>>
  /\ rateLimits = <<>>
  /\ now = 0
  /\ errorLogs = <<>>
  /\ result = Idle("init")
  /\ windowCalls = [u \in UserIds |-> 0]
  /\ calls = <<>>
  /\ editPage = {}

\* a posts table left by earlier sessions: published or not, dated or
\* not, of two owners, ids by position
StoredPost(i, f, d, owner) ==
  [title       |-> Text1.title,
   content     |-> Text1.content,
   topic       |-> Text1.topic,
   style       |-> Text1.style,
   userId      |-> owner,
   id          |-> "p" \o ToString(i),
   isPublished |-> f,
   publishDate |-> d,
   createdAt   |-> 0,
   updatedAt   |-> 0]

StoredShapes ==
  { <<TRUE, {}, "u1">>, <<FALSE, {}, "u2">> }
  \cup { <<TRUE, {d}, "u1">> : d \in PublishDates }
  \cup { <<FALSE, {d}, "u2">> : d \in PublishDates }

StoredTables(n) ==
  UNION { { [i \in 1..k |-> StoredPost(i, sh[i][1], sh[i][2], sh[i][3])] :
              sh \in [1..k -> StoredShapes] } : k \in 0..n }

\* the admin calls start from a session and a posts table already in
\* localStorage; nothing in the code mints the admin role
InitAdmin ==
  /\ variant \in {"storage", "utils"}
  /\ user \in {{}} \cup {{[id |-> "u1", role |-> r]} :
                            r \in {{}, {"user"}, {"admin"}}}
  /\ isAuthenticated = (user # {})
  /\ token = IF user = {} THEN {} ELSE {"mock-jwt-token"}
  /\ posts \in StoredTables(MaxAdminPosts)
  /\ rateLimits = <<>>
  /\ now = 0
  /\ errorLogs = <<>>
  /\ result = Idle("init")
  /\ windowCalls = [u \in UserIds |-> 0]
  /\ calls = <<>>
  /\ editPage = {}

\* the session keys as an earlier visit left them: nobody, or a user of
\* any role with the flag and the token AuthForm writes with it
InitStoredSession ==
  /\ variant \in {"storage", "utils"}
  /\ user \in {{}} \cup {{[id |-> "u1", role |-> r]} :
                            r \in {{}, {"user"}, {"admin"}}}
  /\ isAuthenticated = (user # {})
  /\ token = IF user = {} THEN {} ELSE {"mock-jwt-token"}
  /\ posts = <<>>
  /\ rateLimits = <<>>
  /\ now = 0
  /\ errorLogs = <<>>
  /\ result = Idle("init")
  /\ windowCalls = [u \in UserIds |-> 0]
  /\ calls = <<>>
  /\ editPage = {}

Payload(i, x, f, d) ==
  [title       |-> x.title,
   content     |-> x.content,
   topic       |-> x.topic,
   style       |-> x.style,
   id          |-> i,
   isPublished |-> f,
   publishDate |-> d]

\* SavePostPayload (types/index.ts:28-36): creations and updates
Payloads(S) ==
  { Payload({}, x, f, d) : x \in S.createTexts, f \in S.flags, d \in S.dates }
  \cup
  { Payload({i}, x, f, d) :
      i \in PostIds, x \in S.updateTexts, f \in S.flags, d \in S.dates }

Caller == {u.id : u \in user}

\* the limiter state of the caller before the call
Before == {rateLimits[u] : u \in Caller \cap DOMAIN rateLimits}

\* the cap on `current`: a call that would charge beyond it is not issued
CanCharge(S) ==
  \A rl \in Before :
     \/ rl.current < (IF variant = "storage" THEN S.capStorage
                                             ELSE S.capUtils)
     \/ now > rl.resetTime

\* history: the calls charged to a user since its window was opened
CountCalls(table, wc, charged) ==
  [u \in UserIds |->
     IF u \in Caller /\ u \in DOMAIN table
     THEN IF u \notin DOMAIN rateLimits
             \/ table[u].resetTime # rateLimits[u].resetTime
          THEN charged
          ELSE wc[u] + charged
     ELSE wc[u]]

\* the writes of one call, and what its caller gets back; a failure that
\* would take the followed error log past the scope's cap is not issued
Effects(S, op, out, id, flag, payload, charged) ==
  /\ posts' = out.posts
  /\ rateLimits' = out.table
  /\ errorLogs' = IF S.errorLog
                  THEN apiErrorHandler(variant, errorLogs, out.status, now)
                  ELSE errorLogs
  /\ Len(errorLogs') > Len(errorLogs) => Len(errorLogs') <= S.maxErrors
  /\ result' = [op |-> op, status |-> out.status, caller |-> Caller,
                id |-> id, flag |-> flag, payload |-> payload,
                ret |-> out.ret, rl |-> out.rl, before |-> Before,
                old |-> UNION {Find(posts, i) : i \in id}]
  /\ windowCalls' = CountCalls(out.table, windowCalls, charged)
  /\ UNCHANGED <<variant, user, isAuthenticated, token, now>>

\* a call that nothing else runs beside: issued and settled in one step
Apply(S, op, out, id, flag, payload, charged) ==
  /\ Effects(S, op, out, id, flag, payload, charged)
  /\ UNCHANGED <<calls, editPage>>

(* ----------------------------- actions --------------------------------- *)
\* AuthForm.tsx:31-71 with authAPI.login / signup (api.ts:117-153)
Submitted(type, newId) ==
  /\ user' = {[id |-> newId, role |-> {}]}
  /\ isAuthenticated' = TRUE
  /\ token' = {"mock-jwt-token"}
  /\ result' = [Idle(type) EXCEPT
                  !.ret = {[id |-> newId, role |-> {}]}]
  /\ UNCHANGED <<variant, posts, rateLimits, now, errorLogs, windowCalls>>

handleSubmit(S) ==
  \E type \in {"login", "signup"}, newId \in S.users :
    /\ Submitted(type, newId)
    /\ UNCHANGED <<calls, editPage>>

\* api.ts:155-164
LoggedOut ==
  /\ user' = {}
  /\ isAuthenticated' = FALSE
  /\ result' = Idle("logout")
  /\ UNCHANGED <<variant, token, posts, rateLimits, now, errorLogs,
                 windowCalls>>

logout ==
  /\ user # {} \/ isAuthenticated
  /\ LoggedOut
  /\ UNCHANGED <<calls, editPage>>

\* mutant: the clock publishes the posts whose date has come
Tick_PublishesDue(S) ==
  /\ now < S.maxTime
  /\ now' = now + 1
  /\ posts' = [i \in 1..Len(posts) |->
                 IF \E d \in posts[i].publishDate : d <= now'
                 THEN [posts[i] EXCEPT !.isPublished = TRUE]
                 ELSE posts[i]]
  /\ result' = Idle("tick")
  /\ UNCHANGED <<variant, user, isAuthenticated, token, rateLimits,
                 errorLogs, windowCalls, calls, editPage>>

\* the clock
Tick(S) ==
  /\ now < S.maxTime
  /\ now' = now + 1
  /\ result' = Idle("tick")
  /\ UNCHANGED <<variant, user, isAuthenticated, token, posts, rateLimits,
                 errorLogs, windowCalls, calls, editPage>>

generateContent(S) ==
  \E x \in S.genTexts, draftId \in PostIds, configured \in BOOLEAN,
     backendOk \in BOOLEAN :
    /\ CanCharge(S)
    /\ Apply(S, "generateContent",
             generateContentCall(variant, user, posts, rateLimits, now,
                                 x, draftId, configured, backendOk),
             {}, {},
             {[topic |-> x.topic, style |-> x.style,
               configured |-> configured, backendOk |-> backendOk]}, 1)

savePost(S) ==
  \E payload \in Payloads(S), newId \in PostIds :
    /\ CanCharge(S)
    /\ payload.id = {} => Len(posts) < S.maxPosts
    /\ Apply(S, "savePost",
             savePostCall(variant, user, posts, rateLimits, now, payload,
                          newId),
             payload.id, {}, {payload}, 1)

getPostById(S) ==
  \E id \in PostIds :
    Apply(S, "getPostById", getPostByIdCall(posts, rateLimits, id),
          {id}, {}, {}, 0)

deletePost(S) ==
  \E id \in PostIds :
    /\ CanCharge(S)
    /\ Apply(S, "deletePost",
             deletePostCall(variant, user, posts, rateLimits, now, id),
             {id}, {}, {}, 1)

publishPost(S) ==
  \E id \in PostIds, flag \in BOOLEAN :
    /\ CanCharge(S)
    /\ Apply(S, "publishPost",
             publishPostCall(variant, user, posts, rateLimits, now, id, flag),
             {id}, {flag}, {}, 1)

checkRateLimit(S) ==
  Apply(S, "getUserRateLimit",
        getUserRateLimitCall(variant, user, posts, rateLimits, now),
        {}, {}, {}, 0)

\* api.ts:166-178
getCurrentUser(S) ==
  Apply(S, "getCurrentUser", getCurrentUserCall(user, posts, rateLimits),
        {}, {}, {}, 0)

\* ErrorBoundary.tsx:28-43: a render error caught by the boundary
componentDidCatch(S) ==
  /\ Cardinality({i \in 1..Len(errorLogs) :
                    errorLogs[i].componentStack # {}}) < S.maxRender
  /\ Len(errorLogs) < S.maxErrors
  /\ errorLogs' = Append(errorLogs,
                         ErrorLog(now, "render error", {"componentStack"}))
  /\ result' = Idle("componentDidCatch")
  /\ UNCHANGED <<variant, user, isAuthenticated, token, posts, rateLimits,
                 now, windowCalls, calls, editPage>>

\* the write of one admin call, and what its caller gets back
AdminEffects(S, op, out, id, flag) ==
  /\ user' = out.user
  /\ errorLogs' = apiErrorHandler(variant, errorLogs, out.status, now)
  /\ Len(errorLogs') > Len(errorLogs) => Len(errorLogs') <= S.maxErrors
  /\ result' = [Idle(op) EXCEPT !.status = out.status, !.caller = Caller,
                                !.id = id, !.flag = flag, !.ret = out.ret]
  /\ UNCHANGED <<variant, isAuthenticated, token, posts, rateLimits, now,
                 windowCalls>>

ApplyAdmin(S, op, out, id, flag) ==
  /\ AdminEffects(S, op, out, id, flag)
  /\ UNCHANGED <<calls, editPage>>

getAdminStats(S) ==
  ApplyAdmin(S, "getAdminStats", getAdminStatsCall(user, posts, now), {}, {})

getAllUsers(S) ==
  ApplyAdmin(S, "getAllUsers", getAllUsersCall(user), {}, {})

getAllPosts(S) ==
  ApplyAdmin(S, "getAllPosts", getAllPostsCall(user, posts), {}, {})

updateUserRole(S) ==
  \E userId \in UserIds, role \in {"user", "admin"} :
    ApplyAdmin(S, "updateUserRole", updateUserRoleCall(user, userId, role),
               {userId}, {role})

\* part_001:22-48: the page /post/{id}; the failure of getPostById goes
\* through apiErrorHandler, the refusal of the page does not
fetchPost(S) ==
  \E id \in PostIds :
    LET got == getPostByIdCall(posts, rateLimits, id)
        out == fetchPostCall(posts, rateLimits, id, isAuthenticated) IN
    /\ errorLogs' = IF S.errorLog
                    THEN apiErrorHandler(variant, errorLogs, got.status, now)
                    ELSE errorLogs
    /\ Len(errorLogs') > Len(errorLogs) => Len(errorLogs') <= S.maxErrors
    /\ result' = [Idle("fetchPost") EXCEPT
                    !.status = out.status, !.caller = Caller, !.id = {id},
                    !.ret = out.ret, !.old = Find(posts, id)]
    /\ UNCHANGED <<variant, user, isAuthenticated, token, posts, rateLimits,
                   now, windowCalls, calls, editPage>>

(* ---------------------------- Edit page -------------------------------- *)
\* Edit.tsx:47-56: the state of the page once the post is fetched
Loaded(fetchedPost) ==
  [post     |-> fetchedPost,
   formData |-> Payload({fetchedPost.id}, fetchedPost,
                        {fetchedPost.isPublished}, fetchedPost.publishDate)]

\* mutant: a date is set without taking the post off publication
ScheduleChange_KeepsFlag(formData, publishDate) ==
  [formData EXCEPT !.publishDate = publishDate]

\* Edit.tsx:97-105
ScheduleChange(formData, publishDate) ==
  LET shouldBePublished == IF publishDate # {} THEN {FALSE}
                           ELSE formData.isPublished
  IN [formData EXCEPT !.publishDate = publishDate,
                      !.isPublished = shouldBePublished]

\* Edit.tsx:107-131; confirmed: the answer to confirm(..)
TogglePublish(formData, confirmed) ==
  IF formData.isPublished = {TRUE}
  THEN [formData EXCEPT !.isPublished = {FALSE}, !.publishDate = {}]
  ELSE IF formData.publishDate # {} /\ ~confirmed
       THEN formData
       ELSE [formData EXCEPT !.isPublished = {TRUE}, !.publishDate = {}]

\* Edit.tsx:40-69: the page is opened by a logged-in user (line 35) and
\* the post fetched; a post that cannot be fetched sends to the dashboard
EditFetchPost(S) ==
  \E id \in PostIds :
    LET got == getPostByIdCall(posts, rateLimits, id) IN
    /\ isAuthenticated
    /\ editPage' = IF got.status = "ok" THEN {Loaded(The(got.ret))} ELSE {}
    /\ Effects(S, "getPostById", got, {id}, {}, {}, 0)
    /\ UNCHANGED calls

\* Edit.tsx:97-105, called by PublishScheduler.tsx:42-68 with a date or
\* with undefined
handleScheduleChange(S) ==
  \E e \in editPage, publishDate \in S.dates :
    /\ editPage' = {[e EXCEPT
                       !.formData = ScheduleChange(e.formData, publishDate)]}
    /\ result' = [Idle("handleScheduleChange") EXCEPT
                    !.payload = {e.formData}]
    /\ UNCHANGED <<variant, user, isAuthenticated, token, posts, rateLimits,
                   now, errorLogs, windowCalls, calls>>

\* Edit.tsx:107-131
togglePublishStatus ==
  \E e \in editPage, confirmed \in BOOLEAN :
    /\ editPage' = {[e EXCEPT
                       !.formData = TogglePublish(e.formData, confirmed)]}
    /\ result' = [Idle("togglePublishStatus") EXCEPT
                    !.payload = {e.formData}]
    /\ UNCHANGED <<variant, user, isAuthenticated, token, posts, rateLimits,
                   now, errorLogs, windowCalls, calls>>

\* Edit.tsx:133-151: savePost(formData); a save that succeeds leaves the
\* page for the dashboard
handleSave(S) ==
  \E e \in editPage, newId \in PostIds :
    /\ e.formData.title # "" /\ e.formData.content # ""
    /\ CanCharge(S)
    /\ Effects(S, "handleSave",
               savePostCall(variant, user, posts, rateLimits, now,
                            e.formData, newId),
               e.formData.id, {}, {e.formData}, 1)
    /\ editPage' = IF result'.status = "ok" THEN {} ELSE editPage
    /\ UNCHANGED calls

(* ------------------- calls that wait on their delay ------------------- *)
\* a call as its caller made it: the arguments are fixed when it is
\* issued, everything else is read when its delay has run out
Request(op, id, flag, payload) ==
  [status |-> "pending", id |-> id, payload |-> payload, flag |-> flag,
   op |-> op, beside |-> {}]

Requests(S) ==
  { Request("savePost", payload.id, {}, {payload}) :
      payload \in IF "savePost" \in S.ops THEN Payloads(S) ELSE {} }
  \cup
  { Request(type, {}, {}, {}) :
      type \in {"login", "signup", "logout"} \cap S.ops }
  \cup
  \* part_001:20: the page reads isAuthenticated() when it renders, before
  \* the post is fetched
  { Request("fetchPost", {id}, {isAuthenticated}, {}) :
      id \in IF "fetchPost" \in S.ops THEN PostIds ELSE {} }
  \cup
  { Request("updateUserRole", {userId}, {role}, {}) :
      userId \in IF "updateUserRole" \in S.ops THEN UserIds ELSE {},
      role \in {"user", "admin"} }

Pending(op) == {i \in 1..Len(calls) : calls[i].status = "pending"
                                        /\ calls[i].op \in op}

\* call i has returned or thrown; history: the calls it left waiting
Settled(i) ==
  [calls EXCEPT
     ![i].status = result'.status,
     ![i].beside = {j \in 1..Len(calls) : calls[j].status = "pending"}
                     \ {i}]

\* the call is made: it runs up to its first await (delay, part_006:53-55;
\* nothing is read or written before it) and is left waiting
issue(S) ==
  \E request \in Requests(S) :
    /\ Len(calls) < S.maxCalls
    /\ calls' = Append(calls, request)
    /\ UNCHANGED <<variant, user, isAuthenticated, token, posts, rateLimits,
                   now, errorLogs, result, windowCalls, editPage>>

\* the rest of a call, from the end of its delay to its return or throw:
\* one synchronous run (api.ts:303-359)
settleSavePost(S) ==
  \E i \in Pending({"savePost"}), newId \in PostIds :
    /\ Effects(S, "savePost",
               savePostCall(variant, user, posts, rateLimits, now,
                            The(calls[i].payload), newId),
               calls[i].id, {}, calls[i].payload, 1)
    /\ calls' = Settled(i)
    /\ UNCHANGED editPage

\* api.ts:185-294 (second variant 750-780): generateContent waits on no
\* delay; the session is read and the limiter charged in the call itself,
\* the only await is the fetch, and nothing is written after it
issueGenerateContent(S) ==
  \E x \in S.genTexts, draftId \in PostIds, configured \in BOOLEAN,
     backendOk \in BOOLEAN :
    /\ Len(calls) < S.maxCalls
    /\ Effects(S, "generateContent",
               generateContentCall(variant, user, posts, rateLimits, now,
                                   x, draftId, configured, backendOk),
               {}, {},
               {[topic |-> x.topic, style |-> x.style,
                 configured |-> configured, backendOk |-> backendOk]}, 1)
    /\ calls' = Append(calls,
                       [Request("generateContent", {}, {}, {x}) EXCEPT
                          !.status = result'.status,
                          !.beside = {j \in 1..Len(calls) :
                                        calls[j].status = "pending"}])
    /\ UNCHANGED editPage

\* AuthForm.tsx:55-61: login or signup has returned, the three keys are
\* written
settleSubmit(S) ==
  \E i \in Pending({"login", "signup"}), newId \in S.users :
    /\ Submitted(calls[i].op, newId)
    /\ calls' = Settled(i)
    /\ UNCHANGED editPage

\* api.ts:160-162
settleLogout(S) ==
  \E i \in Pending({"logout"}) :
    /\ LoggedOut
    /\ calls' = Settled(i)
    /\ UNCHANGED editPage

\* api.ts:601-630
settleUpdateUserRole(S) ==
  \E i \in Pending({"updateUserRole"}) :
    /\ AdminEffects(S, "updateUserRole",
                    updateUserRoleCall(user, The(calls[i].id),
                                       The(calls[i].flag)),
                    calls[i].id, calls[i].flag)
    /\ calls' = Settled(i)
    /\ UNCHANGED editPage

\* part_001:28-37: getPostById has returned; isAuth is what the page read
\* when it was opened
settleFetchPost(S) ==
  \E i \in Pending({"fetchPost"}) :
    LET id     == The(calls[i].id)
        isAuth == The(calls[i].flag)
        got    == getPostByIdCall(posts, rateLimits, id)
        out    == fetchPostCall(posts, rateLimits, id, isAuth) IN
    /\ errorLogs' = IF S.errorLog
                    THEN apiErrorHandler(variant, errorLogs, got.status, now)
                    ELSE errorLogs
    /\ Len(errorLogs') > Len(errorLogs) => Len(errorLogs') <= S.maxErrors
    /\ result' = [Idle("fetchPost") EXCEPT
                    !.status = out.status, !.caller = Caller, !.id = {id},
                    !.flag = {isAuth}, !.ret = out.ret,
                    !.old = Find(posts, id)]
    /\ calls' = Settled(i)
    /\ UNCHANGED <<variant, user, isAuthenticated, token, posts, rateLimits,
                   now, windowCalls, editPage>>

\* the repository calls
NextPosts ==
  \/ handleSubmit(PostsScope)
  \/ logout
  \/ Tick(PostsScope)
  \/ savePost(PostsScope)
  \/ getPostById(PostsScope)
  \/ deletePost(PostsScope)
  \/ publishPost(PostsScope)

\* every rate-limited call, and the read of the limiter
NextLimiter ==
  \/ handleSubmit(LimiterScope)
  \/ logout
  \/ Tick(LimiterScope)
  \/ generateContent(LimiterScope)
  \/ savePost(LimiterScope)
  \/ getPostById(LimiterScope)
  \/ deletePost(LimiterScope)
  \/ publishPost(LimiterScope)
  \/ checkRateLimit(LimiterScope)

\* storing and deleting
NextDelete ==
  \/ handleSubmit(DeleteScope)
  \/ logout
  \/ savePost(DeleteScope)
  \/ getPostById(DeleteScope)
  \/ deletePost(DeleteScope)

\* what ends on the error log
NextErrors ==
  \/ getCurrentUser(ErrorsScope)
  \/ componentDidCatch(ErrorsScope)

\* the session and the admin calls
NextAdmin ==
  \/ handleSubmit(AdminScope)
  \/ logout
  \/ Tick(AdminScope)
  \/ getCurrentUser(AdminScope)
  \/ getAdminStats(AdminScope)
  \/ getAllUsers(AdminScope)
  \/ getAllPosts(AdminScope)
  \/ updateUserRole(AdminScope)

\* writing posts and looking at them
NextView ==
  \/ handleSubmit(ViewScope)
  \/ logout
  \/ Tick(ViewScope)
  \/ savePost(ViewScope)
  \/ publishPost(ViewScope)
  \/ getPostById(ViewScope)
  \/ fetchPost(ViewScope)

\* posts of two owners, each within reach of the other
NextOwner ==
  \/ handleSubmit(OwnerScope)
  \/ logout
  \/ savePost(OwnerScope)
  \/ deletePost(OwnerScope)

\* posts of two owners published by either
NextPublish ==
  \/ handleSubmit(PublishScope)
  \/ Tick(PublishScope)
  \/ savePost(PublishScope)
  \/ publishPost(PublishScope)

\* calls that fail, and generateContent with and without its backend
NextFailures ==
  \/ handleSubmit(FailuresScope)
  \/ logout
  \/ getCurrentUser(FailuresScope)
  \/ generateContent(FailuresScope)
  \/ getPostById(FailuresScope)
  \/ deletePost(FailuresScope)

\* calls of one user running beside each other
NextConcurrent ==
  \/ handleSubmit(ConcurrentScope)
  \/ issue(ConcurrentScope)
  \/ issueGenerateContent(ConcurrentScope)
  \/ settleSavePost(ConcurrentScope)

\* every way to a session, and what a session can ask for
NextSession ==
  \/ handleSubmit(SessionScope)
  \/ logout
  \/ getCurrentUser(SessionScope)
  \/ savePost(SessionScope)
  \/ getAdminStats(SessionScope)
  \/ getAllUsers(SessionScope)
  \/ getAllPosts(SessionScope)
  \/ updateUserRole(SessionScope)

\* submissions, logouts and role updates waiting together
NextRace ==
  \/ issue(RaceScope)
  \/ settleSubmit(RaceScope)
  \/ settleLogout(RaceScope)
  \/ settleUpdateUserRole(RaceScope)

\* posts written through the API and through the Edit form
NextEdit ==
  \/ handleSubmit(EditScope)
  \/ logout
  \/ savePost(EditScope)
  \/ publishPost(EditScope)
  \/ EditFetchPost(EditScope)
  \/ handleScheduleChange(EditScope)
  \/ togglePublishStatus
  \/ handleSave(EditScope)

\* dated posts, the clock and the post page
NextSchedule ==
  \/ handleSubmit(ScheduleScope)
  \/ logout
  \/ Tick(ScheduleScope)
  \/ savePost(ScheduleScope)
  \/ publishPost(ScheduleScope)
  \/ issue(ScheduleScope)
  \/ settleFetchPost(ScheduleScope)

\* the post repository under every payload shape
Spec == Init /\ [][NextPosts]_vars

\* one user driven up to and past the ceiling of the limiter
SpecLimiter == Init /\ [][NextLimiter]_vars

\* failures logged one after the other
SpecErrors == Init /\ [][NextErrors]_vars

\* callers of every role over stored posts tables
SpecAdmin == InitAdmin /\ [][NextAdmin]_vars

\* the post page seen by the owner, another user and a visitor
SpecView == Init /\ [][NextView]_vars

\* posts stored, some under one id, and deleted
SpecDelete == Init /\ [][NextDelete]_vars

\* two owners over one posts table
SpecOwner == Init /\ [][NextOwner]_vars

\* failing calls and what they leave on the error log
SpecFailures == Init /\ [][NextFailures]_vars

\* calls in flight together; a timer that has run out fires, so a call
\* that waits is settled in the end
SpecConcurrent ==
  /\ Init
  /\ [][NextConcurrent]_vars
  /\ WF_vars(settleSavePost(ConcurrentScope))

\* sessions opened and closed from empty storage
SpecSession == Init /\ [][NextSession]_vars

\* the session keys under interleaved calls
SpecRace == InitStoredSession /\ [][NextRace]_vars

\* the Edit form over stored posts of every kind
SpecEdit == Init /\ [][NextEdit]_vars

\* dated posts while their date passes
SpecSchedule == Init /\ [][NextSchedule]_vars

\* two users publishing over one posts table
SpecPublish == Init /\ [][NextPublish]_vars

(* ------------------------------ claims --------------------------------- *)
ChargedOps == {"generateContent", "savePost", "deletePost", "publishPost"}

\* the last call went through the limiter
Charged == result.op \in ChargedOps /\ result.rl # {}

\* C1: in an unexpired window the first `limit` rate-limited calls of a user
\* are admitted and a call is rejected exactly when it is call limit+1 or
\* later.
C1_FirstLimitCallsAdmitted ==
  Charged =>
    \A u \in result.caller :
      (result.status = "RateLimitExceeded")
        <=> (windowCalls[u] > The(result.rl).limit)

\* C2: a savePost, deletePost or publishPost rejected by the limiter leaves
\* the stored posts exactly as they were.
C2_RejectionKeepsPosts ==
  [][ (/\ result'.op \in {"savePost", "deletePost", "publishPost"}
       /\ result'.status = "RateLimitExceeded")
      => posts' = posts ]_vars

C2_Witness ==
  /\ result.op = "deletePost"
  /\ result.status = "RateLimitExceeded"
  /\ result.old # {}

\* C3: remaining is never negative, and in the table as in what consume
\* returns remaining = max(0, limit - current).
C3_RemainingIsClamped ==
  /\ \A u \in DOMAIN rateLimits :
       /\ rateLimits[u].remaining >= 0
       /\ rateLimits[u].remaining
            = Max(0, rateLimits[u].limit - rateLimits[u].current)
  /\ \A rl \in result.rl :
       /\ rl.remaining >= 0
       /\ rl.remaining = Max(0, rl.limit - rl.current)

C3_Witness ==
  /\ Charged
  /\ The(result.rl).current > The(result.rl).limit
  /\ The(result.rl).remaining = 0

\* C4: a consume made after resetTime returns current = 1,
\* remaining = limit - 1 and resetTime = now + one window, and stores that,
\* whatever current was.
C4_ConsumeAfterResetTime ==
  [][ \A u \in Caller \cap DOMAIN rateLimits :
        (/\ result'.op \in ChargedOps
         /\ result'.rl # {}
         /\ now > rateLimits[u].resetTime)
        => /\ The(result'.rl) =
                [limit     |-> rateLimits[u].limit,
                 current   |-> 1,
                 remaining |-> rateLimits[u].limit - 1,
                 resetTime |-> now + RATE_LIMIT_WINDOW]
           /\ rateLimits'[u] = The(result'.rl) ]_vars

C4_Witness ==
  /\ Charged
  /\ result.before # {}
  /\ The(result.before).current > The(result.before).limit
  /\ now > The(result.before).resetTime
  /\ The(result.rl).current = 1

\* C5: the read of the limiter charges nothing: it creates absent state as
\* (limit, 0, limit, now + window), resets an expired window to current = 0,
\* remaining = limit, resetTime = now + window, and otherwise returns the
\* state as it is.
C5_CheckCreatesResetsOrReads ==
  [][ (result'.op = "getUserRateLimit" /\ result'.status = "ok")
      => \A u \in Caller :
           LET N == IF variant = "storage" THEN MAX_REQUESTS_PER_HOUR
                                           ELSE UTILS_LIMIT
               expected ==
                 IF u \notin DOMAIN rateLimits
                 THEN [limit |-> N, current |-> 0, remaining |-> N,
                       resetTime |-> now + RATE_LIMIT_WINDOW]
                 ELSE IF now > rateLimits[u].resetTime
                 THEN [limit |-> rateLimits[u].limit, current |-> 0,
                       remaining |-> N,
                       resetTime |-> now + RATE_LIMIT_WINDOW]
                 ELSE rateLimits[u]
           IN /\ result'.rl = {expected}
              /\ rateLimits'[u] = expected ]_vars

\* the records of ps whose id is id, by position
Matching(ps, id) == {i \in 1..Len(ps) : ps[i].id = id}

\* C6: savePost without an id appends exactly one record, whose id is the id
\* of no record stored before, with createdAt = updatedAt = now and the
\* caller as userId, and changes no record stored before.
C6_CreateAppendsFreshRecord ==
  [][ (/\ result'.op = "savePost"
       /\ result'.status = "ok"
       /\ result'.id = {})
      => /\ Len(posts') = Len(posts) + 1
         /\ SubSeq(posts', 1, Len(posts)) = posts
         /\ LET new == posts'[Len(posts')] IN
            /\ Matching(posts, new.id) = {}
            /\ new.createdAt = now
            /\ new.updatedAt = now
            /\ new.userId \in Caller ]_vars

\* C7: savePost with the id of a stored record keeps that record's
\* createdAt, id and userId and sets its updatedAt to the time of the save.
C7_UpdateKeepsCreatedAt ==
  [][ (/\ result'.op = "savePost"
       /\ result'.status = "ok"
       /\ result'.id # {})
      => /\ Len(posts') = Len(posts)
         /\ \A i \in Matching(posts, The(result'.id)) :
              /\ posts'[i].createdAt = posts[i].createdAt
              /\ posts'[i].id = posts[i].id
              /\ posts'[i].userId = posts[i].userId
              /\ posts'[i].updatedAt = now ]_vars

C7_Witness ==
  /\ result.op = "savePost"
  /\ result.status = "ok"
  /\ result.old # {}
  /\ result.ret # {}
  /\ The(result.ret).createdAt = The(result.old).createdAt
  /\ The(result.ret).updatedAt > The(result.old).updatedAt

\* C8: savePost with an id that no stored record has never returns
\* successfully (it fails with NotFound once the caller is authenticated and
\* within its limit) and leaves the posts unchanged.
C8_UpdateOfMissingIdFails ==
  [][ (/\ result'.op = "savePost"
       /\ result'.id # {}
       /\ Matching(posts, The(result'.id)) = {})
      => /\ result'.status # "ok"
         /\ result'.status
              \in {"NotAuthenticated", "RateLimitExceeded", "NotFound"}
         /\ posts' = posts ]_vars

\* C9 as stated: on an update isPublished and publishDate are overwritten
\* only when the payload carries them; an omitted one keeps its stored value.
C9_OmittedFieldsKept ==
  [][ (/\ result'.op = "savePost"
       /\ result'.status = "ok"
       /\ result'.id # {})
      => \A i \in Matching(posts, The(result'.id)) :
           LET payload == The(result'.payload) IN
           /\ posts'[i].isPublished
                = Nullish(payload.isPublished, posts[i].isPublished)
           /\ posts'[i].publishDate
                = IF payload.publishDate = {} THEN posts[i].publishDate
                  ELSE payload.publishDate ]_vars

\* C9 amended: on an update isPublished is overwritten only when the payload
\* carries it, and publishDate always becomes the payload's publishDate: a
\* payload without one clears the stored date.
C9_DateAlwaysReplaced ==
  [][ (/\ result'.op = "savePost"
       /\ result'.status = "ok"
       /\ result'.id # {})
      => \A i \in Matching(posts, The(result'.id)) :
           LET payload == The(result'.payload) IN
           /\ posts'[i].isPublished
                = Nullish(payload.isPublished, posts[i].isPublished)
           /\ posts'[i].publishDate = payload.publishDate ]_vars

C9_Witness ==
  /\ result.op = "savePost"
  /\ result.status = "ok"
  /\ result.old # {}
  /\ The(result.old).publishDate # {}
  /\ The(result.old).isPublished
  /\ The(result.payload).publishDate = {}
  /\ The(result.payload).isPublished = {}
  /\ The(result.ret).publishDate = {}
  /\ The(result.ret).isPublished

\* C10: after a successful publishPost(id, v) the record getPostById(id)
\* returns has isPublished = v, in the state publishPost leaves and when
\* getPostById is the next call; publishPost on an id that is not stored
\* fails with NotFound and changes no post.
C10_PublishThenGet ==
  [][ /\ (result'.op = "publishPost" /\ result'.status = "ok")
         => LET got == getPostByIdCall(posts', rateLimits', The(result'.id))
            IN /\ Matching(posts, The(result'.id)) # {}
               /\ got.status = "ok"
               /\ The(got.ret).isPublished = The(result'.flag)
      /\ (/\ result.op = "publishPost" /\ result.status = "ok"
          /\ result'.op = "getPostById" /\ result'.id = result.id)
         => /\ result'.status = "ok"
            /\ The(result'.ret).isPublished = The(result.flag)
      /\ (/\ result'.op = "publishPost"
          /\ Matching(posts, The(result'.id)) = {}
          /\ result'.status \notin {"NotAuthenticated", "RateLimitExceeded"})
         => /\ result'.status = "NotFound"
            /\ posts' = posts ]_vars

C10_Witness ==
  /\ result.op = "publishPost"
  /\ result.status = "ok"
  /\ result.flag = {TRUE}
  /\ result.old # {}
  /\ ~The(result.old).isPublished
  /\ The(result.ret).isPublished

\* C11: deletePost on an id that is not stored fails with NotFound and leaves
\* the posts as they were; on a stored id it succeeds, removes the records
\* with that id and keeps every other record in place, so that getPostById
\* of that id fails with NotFound, in the state deletePost leaves and when
\* getPostById is the next call.
C11_DeleteThenGet ==
  [][ /\ (/\ result'.op = "deletePost"
          /\ result'.status \notin {"NotAuthenticated", "RateLimitExceeded"})
         => LET id == The(result'.id) IN
            IF Matching(posts, id) = {}
            THEN /\ result'.status = "NotFound"
                 /\ posts' = posts
            ELSE /\ result'.status = "ok"
                 /\ posts' = SelectSeq(posts, LAMBDA post : post.id # id)
                 /\ getPostByIdCall(posts', rateLimits', id).status
                      = "NotFound"
      /\ (/\ result.op = "deletePost" /\ result.status = "ok"
          /\ result'.op = "getPostById" /\ result'.id = result.id)
         => result'.status = "NotFound" ]_vars

C11_Witness ==
  /\ result.op = "deletePost"
  /\ result.status = "ok"
  /\ result.old # {}
  /\ Len(posts) = 1
  /\ posts[1].id # The(result.id)

\* C12: the error log never holds more than 100 entries: every append to it
\* leaves what dbLogger.logOperation leaves on its log, the entries so far
\* and the new one, without the oldest once that makes more than 100.
C12_ErrorLogKeepsLast100 ==
  [][ errorLogs' # errorLogs
      => /\ Len(errorLogs') <= DB_LOGS_KEPT
         /\ errorLogs'
              = logOperation(errorLogs, errorLogs'[Len(errorLogs')]) ]_vars

\* C13: generateContent fails only with NotAuthenticated or
\* RateLimitExceeded; called by a logged-in user the limiter admits it
\* returns a post, and that post is the local fallback document when no
\* credential is configured or the backend call fails.
C13_GenerateAlwaysReturnsPost ==
  [][ result'.op = "generateContent"
      => /\ result'.status
              \in {"ok", "NotAuthenticated", "RateLimitExceeded"}
         /\ (Caller # {} /\ result'.status # "RateLimitExceeded")
              => /\ result'.status = "ok"
                 /\ result'.ret # {}
                 /\ LET input == The(result'.payload) IN
                    ~(input.configured /\ input.backendOk)
                      => The(result'.ret).content = "fallback" ]_vars

C15_NoUserNoEffect ==
  [][ (result'.op \in ChargedOps /\ user = {})
      => /\ result'.status = "NotAuthenticated"
         /\ posts' = posts
         /\ rateLimits' = rateLimits ]_vars

C15_Witness ==
  /\ result.op = "savePost"
  /\ result.status = "NotAuthenticated"
  /\ result.payload # {}
  /\ Len(posts) > 0
  /\ DOMAIN rateLimits # {}

AdminOps == {"getAdminStats", "getAllPosts", "getAllUsers", "updateUserRole"}

\* C16 as stated: an admin call by a logged-in caller whose stored role is
\* not admin fails with Unauthorized, returns nothing and changes nothing
\* that is stored.
C16_NonAdminChangesNothing ==
  [][ (/\ result'.op \in AdminOps
       /\ user # {}
       /\ The(user).role # {"admin"})
      => /\ result'.status = "Unauthorized"
         /\ result'.ret = {}
         /\ UNCHANGED <<user, isAuthenticated, token, posts, rateLimits,
                        errorLogs>> ]_vars

\* C16 amended: such a call fails with Unauthorized, returns nothing and
\* leaves the session, the posts and the limiter state as they were; the
\* one thing written is the failure itself, which the first variant's
\* error handler appends to the error log.
C16_NonAdminOnlyLogged ==
  [][ (/\ result'.op \in AdminOps
       /\ user # {}
       /\ The(user).role # {"admin"})
      => /\ result'.status = "Unauthorized"
         /\ result'.ret = {}
         /\ UNCHANGED <<user, isAuthenticated, token, posts, rateLimits>>
         /\ errorLogs'
              = IF variant = "storage"
                THEN Append(errorLogs,
                            ErrorLog(now,
                                     "Unauthorized: Admin access required",
                                     {}))
                ELSE errorLogs ]_vars

C16_Witness ==
  /\ result.op = "getAllPosts"
  /\ result.status = "Unauthorized"
  /\ user # {}
  /\ The(user).role = {"user"}
  /\ Len(posts) > 0
  /\ Len(errorLogs) > 0
  /\ errorLogs[Len(errorLogs)].error = "Unauthorized: Admin access required"

\* C17: for an admin caller getAdminStats returns the number of stored
\* posts, of posts with isPublished, of posts whose publishDate is later
\* than now and of distinct userId values; none of the last three exceeds
\* the first.
C17_StatsCountThePosts ==
  [][ (/\ result'.op = "getAdminStats"
       /\ user # {}
       /\ The(user).role = {"admin"})
      => /\ result'.status = "ok"
         /\ \E stats \in result'.ret :
              /\ result'.ret = {stats}
              /\ stats.totalPosts = Len(posts)
              /\ stats.publishedPosts
                   = Cardinality({i \in 1..Len(posts) :
                                    posts[i].isPublished = TRUE})
              /\ stats.scheduledPosts
                   = Cardinality({i \in 1..Len(posts) :
                                    \E d \in posts[i].publishDate : d > now})
              /\ stats.totalUsers
                   = Cardinality({u \in UserIds :
                                    \E i \in 1..Len(posts) :
                                       posts[i].userId = u})
              /\ stats.publishedPosts <= stats.totalPosts
              /\ stats.scheduledPosts <= stats.totalPosts
              /\ stats.totalUsers <= stats.totalPosts ]_vars

C17_Witness ==
  /\ result.op = "getAdminStats"
  /\ result.status = "ok"
  /\ \E stats \in result.ret :
       /\ stats.totalPosts = 3
       /\ stats.publishedPosts = 2
       /\ stats.scheduledPosts = 1
       /\ stats.totalUsers = 2

AuthOps ==
  AdminOps \cup ChargedOps \cup {"getCurrentUser", "getUserRateLimit"}

\* C20: logout leaves no isAuthenticated flag, no stored user and no stored
\* token, and while nobody is logged in getCurrentUser and every call that
\* needs a session fail with NotAuthenticated.
C20_LogoutClearsSession ==
  [][ /\ result'.op = "logout"
         => /\ ~isAuthenticated'
            /\ user' = {}
            /\ token' = {}
      /\ (~isAuthenticated /\ result'.op \in AuthOps)
         => result'.status = "NotAuthenticated" ]_vars

\* C18: the post page never shows a post whose publishDate is still ahead
\* to a visitor who is not logged in, whatever its isPublished flag (a flag
\* that publishPost(id, TRUE) sets on a scheduled post).
C18_FutureDatedNotShown ==
  [][ (/\ result'.op = "fetchPost"
       /\ ~isAuthenticated
       /\ \E post \in Find(posts, The(result'.id)) :
             \E d \in post.publishDate : d > now)
      => result'.ret = {} ]_vars

\* C19: getPostById returns a stored post to any caller, logged in or not,
\* owner or not; the post page shows a post whose isPublished is FALSE
\* only to its owner.
C19_UnpublishedShownToOwnerOnly ==
  [][ /\ (/\ result'.op = "getPostById"
          /\ Matching(posts, The(result'.id)) # {})
         => /\ result'.status = "ok"
            /\ result'.ret = Find(posts, The(result'.id))
      /\ (/\ result'.op = "fetchPost"
          /\ result'.ret # {}
          /\ ~The(result'.ret).isPublished)
         => Caller = {The(result'.ret).userId} ]_vars

\* C21: a stored post is removed only by deletePost, and only when the
\* caller is the owner of the post (caller id = post.userId) or has the
\* role admin; deletePost by any other logged-in user removes nothing.
C21_OnlyOwnerOrAdminDeletes ==
  [][ /\ Len(posts') < Len(posts) => result'.op = "deletePost"
      /\ result'.op = "deletePost"
         => \A i \in 1..Len(posts) :
              (\A j \in 1..Len(posts') : posts'[j] # posts[i])
                => \E u \in user :
                     u.id = posts[i].userId \/ u.role = {"admin"} ]_vars

\* the calls of authAPI, contentAPI and adminAPI
ServiceOps == AuthOps \cup {"login", "signup", "logout", "getPostById"}

\* C22: a service call that fails appends exactly one entry (timestamp,
\* message, stack) to the error log and throws that error; a call that
\* succeeds, and so a generateContent whose backend failed and was
\* absorbed, appends nothing and throws nothing.
C22_EveryFailureLoggedOnce ==
  [][ result'.op \in ServiceOps
      => /\ result'.status # "ok"
            => errorLogs'
                 = Append(errorLogs,
                          ErrorLog(now, ErrorMessage(result'.status), {}))
         /\ result'.status = "ok" => errorLogs' = errorLogs
         /\ (/\ result'.op = "generateContent"
             /\ Caller # {}
             /\ result'.rl # {} /\ ~RateLimitExceeded(The(result'.rl))
             /\ The(result'.payload).configured
             /\ ~The(result'.payload).backendOk)
            => /\ result'.status = "ok"
               /\ errorLogs' = errorLogs ]_vars

\* C23: a consume made inside an unexpired window raises the caller's
\* current by exactly 1 and recomputes remaining, in what it returns and in
\* what it stores; the first consume of a user with no limiter state
\* counts from 0 and returns current = 1.
C23_ConsumeAddsOne ==
  [][ (result'.op \in ChargedOps /\ result'.rl # {})
      => \A u \in Caller :
           LET fresh  == u \notin DOMAIN rateLimits
               before == IF fresh THEN 0 ELSE rateLimits[u].current
               rl     == The(result'.rl)
           IN (fresh \/ now <= rateLimits[u].resetTime)
                => /\ rl.current = before + 1
                   /\ rl.remaining = Max(0, rl.limit - rl.current)
                   /\ rateLimits'[u] = rl ]_vars

\* the calls that have returned without an error
Succeeded(op) == {i \in 1..Len(calls) : calls[i].status = "ok"
                                          /\ calls[i].op \in op}

\* the calls of the session that have gone through the limiter
Consumed == {i \in 1..Len(calls) :
               /\ calls[i].op \in ChargedOps
               /\ calls[i].status \notin {"pending", "NotAuthenticated"}}

\* a write of a call that returned is missing from what is stored: fewer
\* records than creations that succeeded, or a current that counts fewer
\* consumes than were made (the first variant does not count the first)
C24_UpdateLost ==
  \/ Len(posts) < Cardinality(Succeeded({"savePost"}))
  \/ \E u \in Caller :
       /\ Consumed # {}
       /\ u \in DOMAIN rateLimits
       /\ rateLimits[u].current
            < Cardinality(Consumed) - (IF variant = "storage" THEN 1 ELSE 0)

\* C24 as stated: two calls of one tab that run beside each other (two
\* savePost, each with its consume) interleave so that the write of one is
\* lost: once two of them wait together, a state follows in which what is
\* stored shows fewer writes than calls that returned.
C24_UpdateLostInTheEnd ==
  (Cardinality(Pending({"savePost"})) >= 2) ~> C24_UpdateLost

\* C24 amended: calls of one tab interleave only at their leading delay;
\* what is stored always shows every call that has returned: one record
\* for each creation that succeeded, and a current that counts every
\* consume made.
C24_EveryWriteKept ==
  /\ ~C24_UpdateLost
  /\ Len(posts) = Cardinality(Succeeded({"savePost"}))
  /\ \A u \in Caller \cap DOMAIN rateLimits :
       rateLimits[u].current
         = Max(0, Cardinality(Consumed)
                    - (IF variant = "storage" THEN 1 ELSE 0))

\* two creations were waiting together and both have returned
C24_Witness ==
  /\ Len(calls) = MaxInFlight
  /\ Succeeded({"savePost"}) = 1..MaxInFlight
  /\ \E i \in 1..Len(calls) : calls[i].beside # {}
  /\ result.op = "savePost"
  /\ result.before # {}
  /\ Len(posts) = MaxInFlight

\* C25: every generateContent, savePost, deletePost or publishPost made
\* with a session charges the caller one unit whatever comes of it: the
\* call rejected by the limiter and the call that fails with NotFound
\* leave current one higher than it was (1 in a window just opened), so
\* current grows above limit while remaining stays 0.
C25_EveryCallCharged ==
  [][ (result'.op \in ChargedOps /\ user # {})
      => \A u \in Caller :
           LET fresh  == u \notin DOMAIN rateLimits
               before == IF fresh \/ now > rateLimits[u].resetTime THEN 0
                         ELSE rateLimits[u].current
           IN /\ u \in DOMAIN rateLimits'
              /\ rateLimits'[u].current = before + 1
              /\ result'.rl = {rateLimits'[u]}
              /\ rateLimits'[u].current > rateLimits'[u].limit
                   => /\ rateLimits'[u].remaining = 0
                      /\ result'.status = "RateLimitExceeded" ]_vars

\* C26: from empty storage no run of login, signup, logout, content and
\* admin calls leaves a stored user with the role admin (login and signup
\* store users without a role, getAllUsers and updateUserRole write one
\* only past the admin check), so every admin call fails and returns
\* nothing.
C26_NoAdminFromEmptyStorage ==
  /\ \A u \in user : u.role = {}
  /\ result.op \in AdminOps
       => /\ result.status \in {"NotAuthenticated", "Unauthorized"}
          /\ result.ret = {}

\* a logged-in user has asked for the admin role for itself
C26_Witness ==
  /\ result.op = "updateUserRole"
  /\ result.flag = {"admin"}
  /\ result.id = Caller
  /\ result.status = "Unauthorized"
  /\ Len(posts) > 0
  /\ The(user).role = {}

\* C27: after any interleaving of AuthForm submissions, logouts and
\* updateUserRole calls, once every call has returned the isAuthenticated
\* flag is set exactly when a user record is stored.
C27_FlagIffUserWhenQuiet ==
  (\A i \in 1..Len(calls) : calls[i].status # "pending")
    => (isAuthenticated <=> user # {})

\* a submission, a logout and a role update that took effect have waited
\* together and all have returned
C27_Witness ==
  /\ Len(calls) = MaxSessionCalls
  /\ \A i \in 1..Len(calls) : calls[i].status # "pending"
  /\ \E i \in 1..Len(calls) : Cardinality(calls[i].beside) >= 2
  /\ Succeeded({"updateUserRole"}) # {}
  /\ Succeeded({"logout"}) # {}
  /\ Succeeded({"login", "signup"}) # {}
  /\ isAuthenticated

\* C28: in the Edit form, when the loaded post is not published and dated
\* at once, no sequence of handleScheduleChange and togglePublishStatus
\* makes formData published and dated at once, and a save from the form
\* stores no record that is published and dated at once.
C28_FormNeverPublishedAndScheduled ==
  [][ /\ \A e \in editPage' :
           ~(e.post.isPublished /\ e.post.publishDate # {})
             => ~(e.formData.isPublished = {TRUE}
                  /\ e.formData.publishDate # {})
      /\ (/\ result'.op = "handleSave"
          /\ result'.status = "ok"
          /\ \A e \in editPage :
                ~(e.post.isPublished /\ e.post.publishDate # {}))
         => /\ \A i \in Matching(posts', The(result'.id)) :
                 /\ ~(posts'[i].isPublished /\ posts'[i].publishDate # {})
                 /\ {posts'[i].isPublished}
                      = The(result'.payload).isPublished
                 /\ posts'[i].publishDate
                      = The(result'.payload).publishDate
            /\ \A i \in 1..Len(posts) \ Matching(posts, The(result'.id)) :
                 posts'[i] = posts[i] ]_vars

\* a published post was given a date in the form and saved: it is stored
\* dated and off publication
C28_Witness ==
  /\ result.op = "handleSave"
  /\ result.status = "ok"
  /\ result.old # {}
  /\ The(result.old).isPublished
  /\ The(result.old).publishDate = {}
  /\ Len(posts) = 1
  /\ ~posts[1].isPublished
  /\ posts[1].publishDate # {}

C30_PublishChangesTwoFields ==
  [][ (result'.op = "publishPost" /\ result'.status = "ok")
      => /\ Len(posts') = Len(posts)
         /\ \A i \in 1..Len(posts) :
              IF posts[i].id = The(result'.id)
              THEN /\ posts'[i].isPublished = The(result'.flag)
                   /\ posts'[i].updatedAt = now
                   /\ posts'[i].id = posts[i].id
                   /\ posts'[i].title = posts[i].title
                   /\ posts'[i].content = posts[i].content
                   /\ posts'[i].topic = posts[i].topic
                   /\ posts'[i].style = posts[i].style
                   /\ posts'[i].publishDate = posts[i].publishDate
                   /\ posts'[i].createdAt = posts[i].createdAt
                   /\ posts'[i].userId = posts[i].userId
                   /\ DOMAIN posts'[i] = DOMAIN posts[i]
              ELSE posts'[i] = posts[i] ]_vars

\* a dated post of one user, second of two stored, was published an hour
\* later by the other user
C30_Witness ==
  /\ result.op = "publishPost"
  /\ result.status = "ok"
  /\ result.flag = {TRUE}
  /\ Len(posts) = 2
  /\ posts[1].id # posts[2].id
  /\ result.ret = {posts[2]}
  /\ \E old \in result.old :
       /\ ~old.isPublished
       /\ old.publishDate # {}
       /\ old.updatedAt < posts[2].updatedAt
       /\ result.caller # {old.userId}

====
